---- MODULE Spec2Model ----
(***************************************************************************)
(* The routing and tool-dispatch layer of the interview helper             *)
(* (src/agentX.py), the model adapter (src/agents/llm_gemini.py) and the   *)
(* specialized agents (src/agents/*.py) as a state machine.                *)
(*                                                                         *)
(* Text is a sequence of tokens (a token stands for a literal or for a     *)
(* piece of text), so concatenation is \o and "begins with" is a prefix.   *)
(* A Python value is a record [kind, text]: None, or a str with its text.  *)
(***************************************************************************)
EXTENDS Integers, Sequences, FiniteSets, TLC

\* ------------------------------------------------------------------ bounds
MaxTurns == 2
MaxToolCalls == 2
MaxDepth == 2
MaxAgents == 3

\* ----------------------------------------------------------- Python values
None == [kind |-> "None", text |-> <<>>]
Str(s) == [kind |-> "str", text |-> s]

\* Python truthiness of None and of a str: None and "" are falsy.
Truthy(v) == v.kind = "str" /\ v.text # <<>>

\* ------------------------------------------------------------ input domains
\* An uploaded PDF: the name the uploader reports, the text of its pages, and
\* whether PdfReader can read it.  Two resumes share a name, one has no
\* extractable text and one cannot be read.
ResumeFiles ==
  { [name |-> <<"a.pdf">>, pages |-> <<<<"text-1">>>>, readable |-> TRUE],
    [name |-> <<"a.pdf">>, pages |-> <<<<"text-2">>>>, readable |-> TRUE],
    [name |-> <<"b.pdf">>, pages |-> <<>>, readable |-> TRUE],
    [name |-> <<"c.pdf">>, pages |-> <<>>, readable |-> FALSE] }
JdFiles ==
  { [name |-> <<"jd.pdf">>, pages |-> <<<<"jd-", "text">>>>, readable |-> TRUE] }

\* What st.chat_input can return to the walrus test: a non-empty string.
UserInputs == { <<"review my resume">>, <<"what skills am I missing?">> }

\* What the generative model can answer: text (possibly empty) or a failure.
ModelTexts == { <<>>, <<"generated text">> }
ModelErrors == { <<"429 quota exceeded">> }
ModelOutcomes ==
  { [ok |-> TRUE, text |-> t] : t \in ModelTexts } \cup
  { [ok |-> FALSE, text |-> e] : e \in ModelErrors }

\* Inputs of the adapter's two operations.
MaxMsgs == 2
Prompts == { <<>>, <<"prompt-1">>, <<"prompt-2">> }
TurnContents == { <<"earlier">>, <<"latest">> }

\* ------------------------------------------------------------- pdf_reader
RECURSIVE JoinPages(_)
JoinPages(pages) ==
  IF pages = <<>> THEN <<>> ELSE Head(pages) \o JoinPages(Tail(pages))

extract_text_from_pdf(file_object) ==
  IF file_object.readable
  THEN Str(JoinPages(file_object.pages))
  ELSE Str(<<"Error reading PDF file: ", "unreadable">>)

\* ---------------------------------------------------------------- prompts
CHATBOT_PROMPT == <<"CHATBOT_PROMPT">>

\* ------------------------------------------------------------ model adapter
\* Variant: the except clause returns the bare error text.
llm_call_no_marker(outcome) == Str(outcome.text)
\* GeminiFlashLLM._call: response.text of model.generate_content(prompt), or
\* the error string of the except clause.
llm_call(outcome) ==
  IF outcome.ok THEN Str(outcome.text)
  ELSE Str(<<"An error occurred: ">> \o outcome.text)

\* What GeminiFlashLLM.response can be given as messages: None, a str, a list
\* of turns, or some other object (text holds its str() form).
MNone == [kind |-> "None", text |-> <<>>, items |-> <<>>]
MStr(s) == [kind |-> "str", text |-> s, items |-> <<>>]
MList(l) == [kind |-> "list", text |-> <<>>, items |-> l]
MObject(r) == [kind |-> "object", text |-> r, items |-> <<>>]

\* A turn of the list: an object with a content attribute ("Message"), a dict
\* with a 'content' key ("dict"), a dict without one ("dict_nc"), or a plain
\* str ("str", content is the string).
Turn(shape, role, content) == [shape |-> shape, role |-> role, content |-> content]

\* str(x) of a turn: a dict prints its items, a str is itself.
TurnStr(t) ==
  IF t.shape = "str" THEN t.content
  ELSE IF t.shape = "dict_nc" THEN <<"{'role': '">> \o t.role \o <<"'}">>
  ELSE <<"{'role': '">> \o t.role \o <<"', 'content': '">> \o t.content \o <<"'}">>

\* `not messages`
MessagesFalsy(m) ==
  \/ m.kind = "None"
  \/ m.kind = "str" /\ m.text = <<>>
  \/ m.kind = "list" /\ m.items = <<>>

\* Variant: messages[0] where the code reads messages[-1].
UserMessageContent_first(m) ==
  IF m.kind = "str" THEN m.text
  ELSE IF m.kind = "list"
       THEN IF m.items = <<>> THEN <<>>
            ELSE LET first == m.items[1]
                 IN IF first.shape \in {"Message", "dict"} THEN first.content
                    ELSE TurnStr(first)
  ELSE m.text
\* The isinstance ladder that picks user_message_content.
UserMessageContent(m) ==
  IF m.kind = "str" THEN m.text
  ELSE IF m.kind = "list"
       THEN IF m.items = <<>> THEN <<>>
            ELSE LET last == m.items[Len(m.items)]
                 IN IF last.shape = "Message" THEN last.content
                    ELSE IF last.shape \in {"dict", "dict_nc"}
                         THEN (IF last.shape = "dict" THEN last.content
                               ELSE TurnStr(last))
                    ELSE TurnStr(last)
  ELSE m.text

\* GeminiFlashLLM.response: the ModelResponse returned and the prompts passed
\* to model.generate_content on the way.
llm_response(m, outcome) ==
  IF MessagesFalsy(m)
  THEN [ret |-> [type |-> "ModelResponse", content |-> Str(<<>>)], sent |-> <<>>]
  ELSE [ret |-> [type |-> "ModelResponse",
                 content |-> IF outcome.ok
                             THEN Str(IF outcome.text # <<>> THEN outcome.text ELSE <<>>)
                             ELSE Str(<<"Error generating response: ">> \o outcome.text)],
        sent |-> << UserMessageContent(m) >>]

\* ----------------------------------------------------- specialized agents
\* The methods each agent class defines itself, next to run() of the
\* framework's Agent base class.
AgentMethods ==
  [ ResumeReviewerAgent |-> {"run", "run_review"},
    RecruiterAgent |-> {"run", "run_evaluation"},
    KnowledgeAgent |-> {"run", "execute"},
    QnAAgent |-> {"run", "execute"} ]

HasMethod(agent, method) == method \in AgentMethods[agent]

\* --------------------------------------------------------------- dispatch
\* The tools of the both-documents branch, in the order of the tools list:
\* the function name is the tool's identifier; usesRequest tells whether the
\* closure passes user_input to execute.
\* Variant: the tools list names knowledge_agent_tool twice.
ToolList_duplicate ==
  << [name |-> "recruiter_agent_tool", agent |-> "RecruiterAgent", usesRequest |-> TRUE],
     [name |-> "knowledge_agent_tool", agent |-> "KnowledgeAgent", usesRequest |-> TRUE],
     [name |-> "knowledge_agent_tool", agent |-> "KnowledgeAgent", usesRequest |-> TRUE] >>
ToolList ==
  << [name |-> "recruiter_agent_tool", agent |-> "RecruiterAgent", usesRequest |-> TRUE],
     [name |-> "knowledge_agent_tool", agent |-> "KnowledgeAgent", usesRequest |-> TRUE],
     [name |-> "qna_agent_tool", agent |-> "QnAAgent", usesRequest |-> FALSE] >>

\* Variant: a job description without a resume enters the tools branch.
DispatchPaths_jd_tools(rc, jc) ==
  IF Truthy(rc) /\ Truthy(jc) THEN {"tools"}
  ELSE IF Truthy(rc) THEN {"review"}
  ELSE IF Truthy(jc) THEN {"tools"}
  ELSE {"chatbot"}

\* Variant: the tools branch is entered when either document is there.
DispatchPaths_either(rc, jc) ==
  IF Truthy(rc) \/ Truthy(jc) THEN {"tools"}
  ELSE {"chatbot"}

\* Variant: the resume test comes before the test of both documents.
DispatchPaths_resume_first(rc, jc) ==
  IF Truthy(rc) THEN {"review"}
  ELSE IF Truthy(rc) /\ Truthy(jc) THEN {"tools"}
  ELSE {"chatbot"}
\* The branch of the if / elif / else on resume_content and jd_content.
DispatchPaths(rc, jc) ==
  IF Truthy(rc) /\ Truthy(jc) THEN {"tools"}
  ELSE IF Truthy(rc) THEN {"review"}
  ELSE {"chatbot"}

\* Variant: the request is left out of the query.
ChatbotQuery_no_request(ui) == CHATBOT_PROMPT
\* full_query of the chatbot branch.
ChatbotQuery(ui) == CHATBOT_PROMPT \o <<"\n\nUser's request: ">> \o ui

\* The arguments a closure passes to execute, as keyword record.
ToolInvocation(t, rc, jc, ui, status) ==
  [ agent |-> t.agent, method |-> "execute", resume |-> rc, jd |-> jc,
    request |-> IF t.usesRequest THEN Str(ui) ELSE None, status |-> status ]

\* What calling agent.execute(...) from a tool does: AttributeError when the
\* class has no such method; otherwise execute returns what the agent's run()
\* produced.
ExecuteStatus(agent) ==
  IF ~HasMethod(agent, "execute") THEN "AttributeError" ELSE "returned"

\* What router_response.content can be when the decision loop ends: the
\* decision model's text, or None when it produced no text.
RouterContents == { None } \cup { Str(t) : t \in ModelTexts }

\* ------------------------------------------------- model text and JSON
\* Model text is a sequence of tokens.  " " is a run of whitespace, "<fence>"
\* the code-fence marker of three backticks, "json" the language tag that may
\* follow it, "text" a word of prose; the string literals are single tokens,
\* quotes included.
StringLiterals == { "\"a\"", "\"Level 1\"", "\"<fence>\"", "\"\"" }

\* The characters between the quotes of a string literal.
StrContent(tok) ==
  CASE tok = "\"a\"" -> << "a" >>
    [] tok = "\"Level 1\"" -> << "Level 1" >>
    [] tok = "\"<fence>\"" -> << "<fence>" >>
    [] OTHER -> << >>

\* Python values: dict (keys in insertion order), list, str, int, None.
PyDict(keys, items) == [t |-> "dict", s |-> <<>>, keys |-> keys, items |-> items]
PyList(items) == [t |-> "list", s |-> <<>>, keys |-> <<>>, items |-> items]
PyStr(text) == [t |-> "str", s |-> text, keys |-> <<>>, items |-> <<>>]
PyInt(digits) == [t |-> "int", s |-> digits, keys |-> <<>>, items |-> <<>>]
PyNone == [t |-> "NoneType", s |-> <<>>, keys |-> <<>>, items |-> <<>>]

\* d[k] = v on a dict under construction: a key already there keeps its place
\* and takes the new value.
DictSet(keys, items, k, v) ==
  IF \E i \in DOMAIN keys : keys[i] = k
  THEN [keys |-> keys,
        items |-> [i \in DOMAIN items |-> IF keys[i] = k THEN v ELSE items[i]]]
  ELSE [keys |-> Append(keys, k), items |-> Append(items, v)]

RECURSIVE SkipWs(_)
SkipWs(toks) ==
  IF toks # <<>> /\ Head(toks) = " " THEN SkipWs(Tail(toks)) ELSE toks

RECURSIVE DropTrailingWs(_)
DropTrailingWs(toks) ==
  IF toks # <<>> /\ toks[Len(toks)] = " "
  THEN DropTrailingWs(SubSeq(toks, 1, Len(toks) - 1)) ELSE toks

\* str.strip()
Strip(toks) == DropTrailingWs(SkipWs(toks))

ParseFail == [ok |-> FALSE, val |-> PyNone, rest |-> <<>>]
ParseOk(v, rest) == [ok |-> TRUE, val |-> v, rest |-> rest]

\* The JSON grammar json.loads accepts: a value is an object, an array, a
\* string, a number or null; members and elements are separated by single
\* commas; whitespace may stand between tokens.
RECURSIVE ParseValue(_)
RECURSIVE ParseMembers(_, _, _)
RECURSIVE ParseElements(_, _)
ParseValue(toks0) ==
  LET toks == SkipWs(toks0)
  IN IF toks = <<>> THEN ParseFail
     ELSE LET h == Head(toks)
              r == Tail(toks)
              r1 == SkipWs(r)
          IN CASE h = "{" ->
                    IF r1 # <<>> /\ Head(r1) = "}"
                    THEN ParseOk(PyDict(<<>>, <<>>), Tail(r1))
                    ELSE ParseMembers(r, <<>>, <<>>)
               [] h = "[" ->
                    IF r1 # <<>> /\ Head(r1) = "]"
                    THEN ParseOk(PyList(<<>>), Tail(r1))
                    ELSE ParseElements(r, <<>>)
               [] h \in StringLiterals -> ParseOk(PyStr(StrContent(h)), r)
               [] h = "1" -> ParseOk(PyInt(<<"1">>), r)
               [] h = "null" -> ParseOk(PyNone, r)
               [] OTHER -> ParseFail

ParseMembers(toks0, keys, items) ==
  LET toks == SkipWs(toks0)
  IN IF toks = <<>> \/ Head(toks) \notin StringLiterals THEN ParseFail
     ELSE LET k == StrContent(Head(toks))
              a == SkipWs(Tail(toks))
          IN IF a = <<>> \/ Head(a) # ":" THEN ParseFail
             ELSE LET v == ParseValue(Tail(a))
                      b == SkipWs(v.rest)
                      d == DictSet(keys, items, k, v.val)
                  IN IF ~v.ok \/ b = <<>> THEN ParseFail
                     ELSE IF Head(b) = "," THEN ParseMembers(Tail(b), d.keys, d.items)
                     ELSE IF Head(b) = "}" THEN ParseOk(PyDict(d.keys, d.items), Tail(b))
                     ELSE ParseFail

ParseElements(toks0, items) ==
  LET v == ParseValue(toks0)
      b == SkipWs(v.rest)
  IN IF ~v.ok \/ b = <<>> THEN ParseFail
     ELSE IF Head(b) = "," THEN ParseElements(Tail(b), Append(items, v.val))
     ELSE IF Head(b) = "]" THEN ParseOk(PyList(Append(items, v.val)), Tail(b))
     ELSE ParseFail

\* json.loads(text): ok is FALSE where it raises JSONDecodeError.
json_loads(toks) ==
  LET v == ParseValue(toks)
  IN IF v.ok /\ SkipWs(v.rest) = <<>>
     THEN [ok |-> TRUE, val |-> v.val]
     ELSE [ok |-> FALSE, val |-> PyNone]

\* re.sub(r"```(?:json)?", "", raw).replace("```", ""): every fence marker
\* goes, with the tag that directly follows it, also a marker that stands
\* inside a string literal.
RECURSIVE StripFences(_)
StripFences(toks) ==
  IF toks = <<>> THEN <<>>
  ELSE LET h == Head(toks)
           r == Tail(toks)
       IN IF h = "<fence>"
          THEN (IF r # <<>> /\ Head(r) = "json"
                THEN StripFences(Tail(r)) ELSE StripFences(r))
          ELSE IF h = "\"<fence>\"" THEN << "\"\"" >> \o StripFences(r)
          ELSE << h >> \o StripFences(r)

\* The fallback of QnAAgent.execute.
Sentinel(t) ==
  PyDict(<< <<"General">> >>,
         << PyDict(<< <<"Level 1">>, <<"Level 2">>, <<"Level 3">> >>,
                   << PyList(<<>>), PyList(<<>>), PyList(<< PyStr(t) >>) >>) >>)

\* QnAAgent.execute from the model's raw text on (also
\* QnAAgent.generate_questions of interview_agent2.py): strip the fence
\* markers, parse, keep a dict, fall back to the sentinel otherwise.
qna_execute(raw) ==
  LET cleaned == Strip(StripFences(raw))
      p == json_loads(cleaned)
  IN IF p.ok /\ p.val.t = "dict" THEN p.val ELSE Sentinel(cleaned)

\* First index from k on that holds no whitespace; Len + 1 when none.
AfterSpaces(t, k) ==
  LET S == { x \in k..Len(t) : t[x] # " " }
  IN IF S = {} THEN Len(t) + 1 ELSE CHOOSE x \in S : \A y \in S : x <= y

\* re.search(r"```(?:json)?\s*(\{.*\})\s*```", text, re.DOTALL): the leftmost
\* fence marker followed (after tag and whitespace) by "{", then the longest
\* stretch ending in "}" that whitespace and a fence marker follow.
FenceOpen(t, i) ==
  IF t[i] # "<fence>" THEN 0
  ELSE LET j == IF i + 1 <= Len(t) /\ t[i + 1] = "json" THEN i + 2 ELSE i + 1
           p == AfterSpaces(t, j)
       IN IF p <= Len(t) /\ t[p] = "{" THEN p ELSE 0

FenceClose(t, q) ==
  /\ t[q] = "}"
  /\ LET e == AfterSpaces(t, q + 1) IN e <= Len(t) /\ t[e] = "<fence>"

FenceSearch(t) ==
  LET M == { m \in (DOMAIN t) \X (DOMAIN t) :
               FenceOpen(t, m[1]) > 0 /\ m[2] > FenceOpen(t, m[1]) /\ FenceClose(t, m[2]) }
  IN IF M = {} THEN [found |-> FALSE, group |-> <<>>]
     ELSE LET i == CHOOSE x \in { m[1] : m \in M } : \A m \in M : x <= m[1]
              q == CHOOSE y \in { m[2] : m \in { n \in M : n[1] = i } } :
                     \A m \in { n \in M : n[1] = i } : y >= m[2]
          IN [found |-> TRUE, group |-> SubSeq(t, FenceOpen(t, i), q)]

\* Structural repair: commas before a closing bracket go, brackets left open
\* are closed.
RECURSIVE DropDanglingCommas(_)
DropDanglingCommas(toks) ==
  IF toks = <<>> THEN <<>>
  ELSE LET r == Tail(toks)
           n == SkipWs(r)
       IN IF Head(toks) = "," /\ (n = <<>> \/ Head(n) \in {"}", "]"})
          THEN DropDanglingCommas(r)
          ELSE << Head(toks) >> \o DropDanglingCommas(r)

RECURSIVE CloseOpen(_, _)
CloseOpen(toks, stack) ==
  IF toks = <<>> THEN stack
  ELSE LET h == Head(toks)
       IN << h >> \o
          CloseOpen(Tail(toks),
            CASE h = "{" -> << "}" >> \o stack
              [] h = "[" -> << "]" >> \o stack
              [] h \in {"}", "]"} /\ stack # <<>> /\ Head(stack) = h -> Tail(stack)
              [] OTHER -> stack)

StructuralRepair(toks) == CloseOpen(DropDanglingCommas(toks), <<>>)

\* What the json_repair library can hand back for text that is not valid
\* JSON: its structural repair, or the empty text when it recovers nothing.
RepairChoices == { "repaired", "empty" }

\* repair_json(cleaned): valid JSON comes back as the same document; for
\* anything else the outcome is the library's choice.
repair_json(cleaned, choice) ==
  IF json_loads(cleaned).ok THEN cleaned
  ELSE IF choice = "repaired" /\ json_loads(StructuralRepair(cleaned)).ok
       THEN StructuralRepair(cleaned)
  ELSE <<>>

\* ExtractionAgent.safe_extract_json: the interior of a fenced block if the
\* pattern matches, else the stripped text; repair_json; json.loads.  Whatever
\* json.loads returns is returned; any exception gives {}.
safe_extract_json(raw, choice) ==
  LET text == Strip(raw)
      m == FenceSearch(text)
      cleaned == IF m.found THEN Strip(m.group) ELSE text
      p == json_loads(repair_json(cleaned, choice))
  IN IF p.ok THEN p.val ELSE PyDict(<<>>, <<>>)

\* text[start:-1]: the last character goes; of a token longer than one
\* character a remainder "?" stays that is not JSON.
DropLastChar(toks) ==
  IF toks = <<>> THEN <<>>
  ELSE LET front == SubSeq(toks, 1, Len(toks) - 1)
       IN IF toks[Len(toks)] \in {"{", "}", "[", "]", ",", ":", " ", "1"}
          THEN front ELSE front \o << "?" >>

\* Strategy 1 of _parse_json_response: the text from the first "{" to the
\* last "}", tried when both are found in this order.
BraceSlice(resp) ==
  LET opens == { i \in DOMAIN resp : resp[i] = "{" }
      closes == { i \in DOMAIN resp : resp[i] = "}" }
      a == CHOOSE i \in opens : \A j \in opens : i <= j
      b == CHOOSE i \in closes : \A j \in closes : i >= j
  IN IF opens # {} /\ closes # {} /\ b > a
     THEN [tried |-> TRUE, text |-> SubSeq(resp, a, b)]
     ELSE [tried |-> FALSE, text |-> <<>>]

\* Strategy 3 of _parse_json_response: what follows the first "```json" up to
\* the next fence marker (up to the last character when there is none),
\* stripped; tried when the response has a "```json".
TaggedBlock(resp) ==
  LET tags == { i \in DOMAIN resp : resp[i] = "<fence>" /\ i + 1 <= Len(resp) /\ resp[i + 1] = "json" }
      start == (CHOOSE i \in tags : \A j \in tags : i <= j) + 2
      ends == { i \in start..Len(resp) : resp[i] \in {"<fence>", "\"<fence>\""} }
      e == CHOOSE i \in ends : \A j \in ends : i <= j
      inner == IF ends = {} THEN DropLastChar(SubSeq(resp, start, Len(resp)))
               ELSE IF resp[e] = "<fence>" THEN SubSeq(resp, start, e - 1)
               ELSE SubSeq(resp, start, e - 1) \o << "?" >>
  IN IF tags # {} THEN [tried |-> TRUE, text |-> Strip(inner)]
     ELSE [tried |-> FALSE, text |-> <<>>]

\* AIModelManager._parse_json_response: None for an empty response; then
\* (1) first "{" to last "}", (2) the stripped response, (3) what follows
\* "```json" up to the next fence marker; the first that json.loads accepts
\* is returned, None when none does.
parse_json_response(resp) ==
  LET s1 == IF BraceSlice(resp).tried
            THEN json_loads(BraceSlice(resp).text) ELSE [ok |-> FALSE, val |-> PyNone]
      s2 == json_loads(Strip(resp))
      s3 == IF TaggedBlock(resp).tried
            THEN json_loads(TaggedBlock(resp).text) ELSE [ok |-> FALSE, val |-> PyNone]
  IN IF resp = <<>> THEN PyNone
     ELSE IF s1.ok THEN s1.val
     ELSE IF s2.ok THEN s2.val
     ELSE IF s3.ok THEN s3.val
     ELSE PyNone

\* The steps each procedure takes on a text, in the order of its code.
\* QnAAgent.execute: the fence markers are removed, then one parse.
qna_steps(raw) == << "strip_fence_markers", "parse" >>

\* safe_extract_json: the text is chosen (fence interior or whole text),
\* repair_json is applied to it, the outcome is parsed.
safe_extract_steps(raw) ==
  << IF FenceSearch(Strip(raw)).found THEN "take_fence_interior" ELSE "take_full_text",
     "structural_repair", "parse" >>

\* _parse_json_response: each strategy parses; the first success returns.
parse_json_response_steps(resp) ==
  IF resp = <<>> THEN <<>>
  ELSE LET p1 == BraceSlice(resp).tried /\ json_loads(BraceSlice(resp).text).ok
           p2 == json_loads(Strip(resp)).ok
       IN (IF BraceSlice(resp).tried THEN << "parse_brace_slice" >> ELSE <<>>)
          \o (IF p1 THEN <<>>
              ELSE << "parse_full_text" >>
                   \o (IF p2 \/ ~TaggedBlock(resp).tried THEN <<>>
                       ELSE << "parse_fence_interior" >>))

\* The raw model texts: JSON documents nested up to MaxDepth, whole, with a
\* comma before the last bracket, or cut before the last bracket; bare, in a
\* fenced block, or with prose around.
JsonKeys == { "\"a\"", "\"Level 1\"" }
JsonScalars == { << "\"a\"" >>, << "\"<fence>\"" >>, << "1" >>, << "null" >> }

RECURSIVE JsonDocs(_)
JsonDocs(d) ==
  IF d = 0 THEN JsonScalars
  ELSE LET inner == JsonDocs(d - 1)
       IN inner \cup { << "{", "}" >>, << "[", "]" >> }
            \cup { << "{", k, ":", " " >> \o v \o << "}" >> : k \in JsonKeys, v \in inner }
            \cup { << "[" >> \o v \o << "]" >> : v \in inner }

Defects(doc) ==
  IF Len(doc) < 3 THEN { doc }
  ELSE { doc,
         SubSeq(doc, 1, Len(doc) - 1) \o << ",", doc[Len(doc)] >>,
         SubSeq(doc, 1, Len(doc) - 1) }

Bodies == UNION { Defects(doc) : doc \in JsonDocs(MaxDepth) } \cup { <<>>, << "text" >> }
Prefixes == { <<>>, << " " >>, << "<fence>", "json", " " >>, << "<fence>", " " >>,
              << "text", " ", "<fence>", "json", " " >> }
Suffixes == { <<>>, << " " >>, << " ", "<fence>" >>, << " ", "<fence>", " ", "text" >> }
RawTexts == { p \o b \o s : p \in Prefixes, b \in Bodies, s \in Suffixes }

\* ------------------------------------------------- RouterAgent (class)
\* Agent names are token sequences; two agents of a list are told apart by
\* their position.
AgentNames == { << "Recruiter", " ", "Agent" >>, << "recruiter", " ", "agent" >>,
                << "Knowledge", " ", "Agent" >>, << "QnA", " ", "Agent" >> }

RECURSIVE AgentLists(_)
AgentLists(n) ==
  IF n = 0 THEN { <<>> }
  ELSE LET shorter == AgentLists(n - 1)
       IN shorter \cup { Append(l, a) : l \in { x \in shorter : Len(x) = n - 1 },
                                        a \in AgentNames }

LowerToken(tok) ==
  CASE tok = "Recruiter" -> "recruiter"
    [] tok = "Knowledge" -> "knowledge"
    [] tok = "Agent" -> "agent"
    [] tok = "QnA" -> "qna"
    [] OTHER -> tok

\* str(agent.name).replace(" ", "_").lower()
NormalizeName(name) ==
  [ i \in DOMAIN name |-> LowerToken(IF name[i] = " " THEN "_" ELSE name[i]) ]

\* The dict comprehension of __init__: for each normalized name the entry of
\* the last agent with that name stays.  Pairs << name, position >>.
AvailableAgents(agents) ==
  { << NormalizeName(agents[i]), i >> : i \in
      { i \in DOMAIN agents :
          \A j \in DOMAIN agents : NormalizeName(agents[j]) = NormalizeName(agents[i]) => j <= i } }

\* _create_tool_for_agent: the name of the tool it returns, or "ValueError".
CreateToolForAgent(name) ==
  IF NormalizeName(name) = << "recruiter", "_", "agent" >> THEN "recruiter_agent_tool"
  ELSE IF NormalizeName(name) = << "knowledge", "_", "agent" >> THEN "knowledge_agent_tool"
  ELSE "ValueError"

\* The values the router's three texts can take.
RouterTexts == { << "v1" >>, << "v2" >> }
RouterFields == { "resume_content", "jd_content", "user_request" }
NoCall == [tool |-> "none", agent |-> 0, args |-> <<>>]

\* Calling a tool of the router: the closure looks the agent up in
\* self.available_agents and passes self.resume_content, self.jd_content and
\* self.user_request as they are when it is called.
RouterToolInvocation(toolName, self, available) ==
  LET key == IF toolName = "recruiter_agent_tool"
             THEN << "recruiter", "_", "agent" >> ELSE << "knowledge", "_", "agent" >>
      entry == CHOOSE e \in available : e[1] = key
  IN [tool |-> toolName, agent |-> entry[2],
      args |-> << self.resume_content, self.jd_content, self.user_request >>]

\* RouterAgent.__init__(agents, ...): the list comprehension over the agents
\* raises at the first name _create_tool_for_agent rejects; otherwise the
\* tools go to Agent.__init__ as they are.
RouterConstruct(agents) ==
  LET made == [ i \in DOMAIN agents |-> CreateToolForAgent(agents[i]) ]
  IN IF \E i \in DOMAIN agents : made[i] = "ValueError"
     THEN [status |-> "ValueError", available |-> AvailableAgents(agents), tools |-> <<>>]
     ELSE [status |-> "built", available |-> AvailableAgents(agents), tools |-> made]

\* --------------------------------------------------- AIModelManager
\* Money is counted in units of $0.0005 and tokens in thousands, so the
\* cost_per_1k_tokens of 0.015, 0.0025 and 0.0015 are 30, 5 and 3 and the
\* default daily budget of $10 is 20000.
MaxDay == 1
MaxKTokens == 2
DefaultBudget == 20000

\* self.models, in the order __init__ lists them.
ManagerModels ==
  << [name |-> "Claude Sonnet 4", provider |-> "anthropic",
      cost_per_1k_tokens |-> 30, priority |-> 1],
     [name |-> "Claude Haiku", provider |-> "anthropic",
      cost_per_1k_tokens |-> 5, priority |-> 2],
     [name |-> "GPT-4o Mini", provider |-> "openai",
      cost_per_1k_tokens |-> 3, priority |-> 3] >>

\* The models with the cheapest first.
SortedModels_by_cost ==
  LET n == Len(ManagerModels)
      Before(j, i) == \/ ManagerModels[j].cost_per_1k_tokens < ManagerModels[i].cost_per_1k_tokens
                      \/ /\ ManagerModels[j].cost_per_1k_tokens = ManagerModels[i].cost_per_1k_tokens
                         /\ j < i
      Rank(i) == Cardinality({ j \in 1..n : Before(j, i) }) + 1
  IN [k \in 1..n |-> ManagerModels[CHOOSE i \in 1..n : Rank(i) = k]]

\* sorted(self.models, key=lambda x: x.priority): a stable sort.
SortedModels ==
  LET n == Len(ManagerModels)
      Before(j, i) == \/ ManagerModels[j].priority < ManagerModels[i].priority
                      \/ /\ ManagerModels[j].priority = ManagerModels[i].priority
                         /\ j < i
      Rank(i) == Cardinality({ j \in 1..n : Before(j, i) }) + 1
  IN [k \in 1..n |-> ManagerModels[CHOOSE i \in 1..n : Rank(i) = k]]

\* The prompts analyze_cv builds, each with the token count
\* _estimate_tokens gives it (len(text) // 4, here in thousands).
ManagerPrompts == { [text |-> << "cv-1" >>, ktokens |-> 1],
                    [text |-> << "cv-2" >>, ktokens |-> 1] }
NoPrompt == [text |-> <<>>, ktokens |-> 0]
estimate_tokens(prompt) == prompt.ktokens

\* The daily budgets the environment variable AI_DAILY_BUDGET sets.
ManagerBudgets == { 35, 40 }

\* What _call_anthropic and _call_openai return: (None, 0) without a client
\* or on any exception, else the response text and the tokens the provider
\* counted, input and output together.
ResponseTexts == { << "{", "}" >>, << "{", "\"a\"", ":", " ", "1", "}" >>, << "text" >> }
ManagerOutcomes ==
  { [text |-> None, ktokens |-> 0] }
    \cup { [text |-> Str(t), ktokens |-> k] : t \in ResponseTexts, k \in 1..MaxKTokens }

\* bool(v) of a Python value.
PyTruthy(v) ==
  CASE v.t = "NoneType" -> FALSE
    [] v.t = "dict" -> v.keys # <<>>
    [] v.t = "list" -> v.items # <<>>
    [] v.t = "str" -> v.s # <<>>
    [] v.t = "int" -> v.s # << "0" >>

AnalysisResult(success, data, model_used, tokens_used, cost) ==
  [success |-> success, data |-> data, model_used |-> model_used,
   tokens_used |-> tokens_used, cost |-> cost]
NoResult == AnalysisResult(FALSE, PyNone, "none", 0, 0)

\* _fallback_analysis: a dictionary of fixed keys; two of them stand for all.
fallback_analysis ==
  PyDict(<< << "extracted_skills" >>, << "experience_gaps" >> >>,
         << PyList(<<>>),
            PyList(<< PyStr(<< "Review CV for specific experience gaps" >>) >>) >>)
FallbackResult == AnalysisResult(TRUE, fallback_analysis, "fallback_rule_based", 0, 0)

\* The loop over the sorted models, from position i on: the first model
\* whose estimated cost still fits the budget is called; 0 when every
\* remaining model is skipped.
NextCallable(i, spending, budget, prompt) ==
  LET fits == { j \in i..Len(SortedModels) :
                  spending + estimate_tokens(prompt) * SortedModels[j].cost_per_1k_tokens
                    <= budget }
  IN IF fits = {} THEN 0 ELSE CHOOSE j \in fits : \A k \in fits : j <= k

\* --------------------------------------------------- ExtractionAgent
MaxExecutes == 2

\* get_tidb_connection opens the connection with autocommit=True: every
\* statement is persisted as it executes.
autocommit == TRUE

\* The job descriptions given to execute, and the texts the model answers
\* an extraction query with.
ExtractJds == { << "jd-1" >>, << "jd-2" >> }
ExtractTexts == { << "{", "\"a\"", ":", " ", "1", "}" >>, << "[", "1", "]" >>, << "text" >> }

compute_hash(content) == << "sha256" >> \o content

\* extract_resume_fields and extract_jd_fields, from the model's raw text
\* on: safe_extract_json(raw_text) or {"raw_response": raw_text}.
extract_fields(raw, choice) ==
  LET v == safe_extract_json(raw, choice)
  IN IF PyTruthy(v) THEN v
     ELSE PyDict(<< << "raw_response" >> >>, << PyStr(raw) >>)

\* cursor.execute of an INSERT and conn.commit() on a table whose persisted
\* rows are p while the open transaction holds the rows t.
DbInsert(p, t, row) ==
  IF autocommit THEN [persisted |-> p \cup { row }, pending |-> t]
  ELSE [persisted |-> p, pending |-> t \cup { row }]
DbCommit(p, t, table) == p \cup { r \in t : r.table = table }

JobRow(id, jd_hash, call) == [table |-> "job_descriptions", id |-> id, key |-> jd_hash, by |-> call]
CandidateRow(id, job_id, call) == [table |-> "candidates", id |-> id, key |-> << job_id >>, by |-> call]

VARIABLES
  messages,        \* st.session_state.messages
  uploaded_files,  \* st.session_state.uploaded_files
  uploader,        \* the file each st.file_uploader widget holds, if any
  pc,              \* where the script run is: idle, chatbot, review, loop,
                   \* or blocked in a model call that does not return
  turns,           \* number of chat inputs so far
  user_input,      \* locals of the dispatch block
  resume_content,
  jd_content,
  registry,        \* the tools list handed to the router Agent
  invocations,     \* calls of agent methods made in this run
  sent,            \* prompts the adapter passed to model.generate_content
  response,        \* the local `response`; None until assigned
  escaped,         \* the exception that ended the run, or "none"
  a_op,            \* the adapter operation called last: none, _call, response
  a_arg,           \* its argument
  a_outcome,       \* what model.generate_content did in it
  a_ret,           \* what it returned
  j_text,          \* the raw model text a JSON procedure is applied to
  j_op,            \* the JSON procedure applied last, or "none"
  j_ret,           \* the Python value it returned
  j_steps,         \* the steps it took, in order
  r_agents,        \* the agents argument of RouterAgent(...)
  r_status,        \* none, built, or the exception __init__ raised
  r_available,     \* self.available_agents
  r_tools,         \* the tools handed to Agent.__init__
  r_args,          \* resume_content, jd_content, user_request given to __init__
  r_self,          \* the three attributes of the router object
  r_call,          \* the last call of a tool: the agent and arguments it used
  m_pc,            \* analyze_cv: idle, or about to call a model
  m_i,             \* position in the priority order of the model to call next
  m_prompt,        \* the prompt of the analyze_cv call
  m_budget,        \* self.daily_budget
  m_spending,      \* self.daily_spending
  m_today,         \* datetime.now().date()
  m_last_reset,    \* self.last_reset
  m_cache,         \* self.cache: prompt -> data
  m_calls,         \* the model calls the last analyze_cv made, in order
  m_result,        \* the AnalysisResult the last analyze_cv returned
  e_pc,            \* ExtractionAgent.execute: idle, or its next statement
  e_call,          \* number of the execute call, counted from 1
  e_jd_content,    \* its jd_content argument
  e_resume_data,   \* the local resume_data
  e_jd_data,       \* the local jd_data
  e_job_id,        \* the local job_id
  e_jobs,          \* rows of job_descriptions that are persisted
  e_candidates,    \* rows of candidates that are persisted
  e_pending,       \* rows written in the open transaction, not yet persisted
  e_status         \* how the last execute ended: none, returned, raised

vars == << messages, uploaded_files, uploader, pc, turns, user_input, resume_content,
           jd_content, registry, invocations, sent, response, escaped,
           a_op, a_arg, a_outcome, a_ret,
           j_text, j_op, j_ret, j_steps, r_agents, r_status, r_available, r_tools,
           r_args, r_self, r_call,
           m_pc, m_i, m_prompt, m_budget, m_spending, m_today, m_last_reset,
           m_cache, m_calls, m_result,
           e_pc, e_call, e_jd_content, e_resume_data, e_jd_data, e_job_id,
           e_jobs, e_candidates, e_pending, e_status >>

adapterVars == << a_op, a_arg, a_outcome, a_ret >>

turnVars == << user_input, resume_content, jd_content, registry,
               invocations, sent, response, escaped >>

jsonVars == << j_text, j_op, j_ret, j_steps >>

routerVars == << r_agents, r_status, r_available, r_tools, r_args, r_self, r_call >>

managerVars == << m_pc, m_i, m_prompt, m_budget, m_spending, m_today,
                 m_last_reset, m_cache, m_calls, m_result >>

extractVars == << e_pc, e_call, e_jd_content, e_resume_data, e_jd_data, e_job_id,
                 e_jobs, e_candidates, e_pending, e_status >>

appVars == << messages, uploaded_files, uploader, pc, turns, turnVars,
              adapterVars >>

\* The state of the app after the first script run.
InitApp ==
  /\ messages = <<>>
  /\ uploaded_files = [ resume |-> [name |-> None, content |-> None],
                        job_description |-> [name |-> None, content |-> None] ]
  /\ uploader = [ resume |-> <<>>, job_description |-> <<>> ]
  /\ pc = "idle"
  /\ turns = 0
  /\ user_input = <<>>
  /\ resume_content = None
  /\ jd_content = None
  /\ registry = <<>>
  /\ invocations = <<>>
  /\ sent = <<>>
  /\ response = None
  /\ escaped = "none"
  /\ a_op = "none"
  /\ a_arg = MNone
  /\ a_outcome = [ok |-> TRUE, text |-> <<>>]
  /\ a_ret = [type |-> "None", content |-> None]

JsonIdle ==
  /\ j_op = "none"
  /\ j_ret = PyNone
  /\ j_steps = <<>>

RouterIdle ==
  /\ r_status = "none"
  /\ r_available = {}
  /\ r_tools = <<>>
  /\ r_self = [resume_content |-> None, jd_content |-> None, user_request |-> None]
  /\ r_call = NoCall

\* AIModelManager.__init__ has run and analyze_cv has not been called.
ManagerIdle ==
  /\ m_pc = "idle"
  /\ m_i = 0
  /\ m_prompt = NoPrompt
  /\ m_spending = 0
  /\ m_today = 0
  /\ m_last_reset = 0
  /\ m_cache = {}
  /\ m_calls = <<>>
  /\ m_result = NoResult

\* ExtractionAgent.__init__ has run on empty tables.
ExtractIdle ==
  /\ e_pc = "idle"
  /\ e_call = 0
  /\ e_jd_content = <<>>
  /\ e_resume_data = PyNone
  /\ e_jd_data = PyNone
  /\ e_job_id = 0
  /\ e_jobs = {}
  /\ e_candidates = {}
  /\ e_pending = {}
  /\ e_status = "none"

Init ==
  /\ InitApp
  /\ m_budget = DefaultBudget /\ ManagerIdle
  /\ ExtractIdle
  /\ j_text = <<>> /\ JsonIdle
  /\ r_agents = <<>> /\ RouterIdle
  /\ r_args = [resume_content |-> None, jd_content |-> None, user_request |-> None]

\* The user puts file f into the uploader of one slot and the script reruns
\* the sidebar's handler: a file whose name differs from the slot's name
\* replaces name and content; the same name changes nothing.
Upload(slot, f) ==
  /\ pc = "idle"
  /\ uploader' = [uploader EXCEPT ![slot] = << f >>]
  /\ uploaded_files' =
       IF uploaded_files[slot].name # Str(f.name)
       THEN [uploaded_files EXCEPT ![slot] =
               [name |-> Str(f.name), content |-> extract_text_from_pdf(f)]]
       ELSE uploaded_files
  /\ UNCHANGED << messages, pc, turns, turnVars, adapterVars, jsonVars, routerVars, managerVars, extractVars >>

UploadResume == \E f \in ResumeFiles : Upload("resume", f)
UploadJobDescription == \E f \in JdFiles : Upload("job_description", f)

UserMessage(u) == [role |-> "user", content |-> Str(u)]
\* Variant: the response is stored under the user's role.
AssistantMessage_as_user(r) == [role |-> "user", content |-> r]
AssistantMessage(r) == [role |-> "assistant", content |-> r]

\* The chat-input block up to the first blocking call: the user message is
\* appended, both slots are read and the branch is entered.
\*   both documents: the three tools are defined and the router Agent runs;
\*   resume only: ResumeReviewerAgent().execute(resume_content=, user_request=);
\*   otherwise: llm._call(CHATBOT_PROMPT + "\n\nUser's request: " + user_input).
Submit(u) ==
  /\ pc = "idle"
  /\ turns < MaxTurns
  /\ turns' = turns + 1
  /\ messages' = Append(messages, UserMessage(u))
  /\ user_input' = u
  /\ resume_content' = uploaded_files.resume.content
  /\ jd_content' = uploaded_files.job_description.content
  /\ response' = None
  /\ LET rc == uploaded_files.resume.content
         jc == uploaded_files.job_description.content
         p == DispatchPaths(rc, jc)
         st == IF HasMethod("ResumeReviewerAgent", "execute")
               THEN "running" ELSE "AttributeError"
     IN /\ registry' = IF "tools" \in p THEN ToolList ELSE <<>>
        /\ invocations' =
             IF "review" \in p
             THEN << [ agent |-> "ResumeReviewerAgent", method |-> "execute",
                       resume |-> rc, jd |-> None, request |-> Str(u),
                       status |-> st ] >>
             ELSE <<>>
        /\ sent' = IF "chatbot" \in p
                   THEN << ChatbotQuery(u) >>
                   ELSE <<>>
        /\ escaped' = IF "tools" \notin p /\ "review" \in p /\ st = "AttributeError"
                      THEN "AttributeError" ELSE "none"
        /\ pc' = IF "tools" \in p THEN "loop"
                 ELSE IF "review" \in p
                      THEN (IF st = "AttributeError" THEN "idle" ELSE "review")
                 ELSE "chatbot"
  /\ UNCHANGED << uploaded_files, uploader, adapterVars, jsonVars, routerVars, managerVars, extractVars >>

\* The blocking call of the chatbot branch (llm._call) or of the resume-only
\* branch (the agent's run) returns; st.write(response) and the append of the
\* assistant message follow.  A failure of the agent's run is an exception
\* that nothing in the block catches.
DirectReturn(outcome) ==
  /\ pc \in {"chatbot", "review"}
  /\ IF pc = "chatbot" \/ outcome.ok
     THEN LET r == IF pc = "chatbot" THEN llm_call(outcome) ELSE Str(outcome.text)
          IN /\ response' = r
             /\ messages' = Append(messages, AssistantMessage(r))
             /\ escaped' = "none"
     ELSE /\ escaped' = "ModelError"
          /\ UNCHANGED << response, messages >>
  /\ invocations' =
       IF pc = "review"
       THEN [invocations EXCEPT ![1].status =
               IF outcome.ok THEN "returned" ELSE "ModelError"]
       ELSE invocations
  /\ pc' = "idle"
  /\ UNCHANGED << uploaded_files, uploader, turns, user_input, resume_content,
                  jd_content, registry, sent, adapterVars, jsonVars, routerVars, managerVars, extractVars >>

\* router.run: the decision model asks for tool i of the registry and the
\* framework calls the closure, which calls the agent's execute with the
\* captured resume_content, jd_content and user_input.  Nothing in the
\* construction of the router Agent limits the number of such calls; the loop
\* goes on until the model answers with text.  When the closure raises, the
\* framework either reports the error to the model (absorbed) or lets it
\* propagate out of router.run.
LoopToolCall(i, absorbed) ==
  /\ pc = "loop"
  /\ Len(invocations) < MaxToolCalls
  /\ i \in DOMAIN registry
  /\ LET st == ExecuteStatus(registry[i].agent)
     IN /\ invocations' = Append(invocations,
             ToolInvocation(registry[i], resume_content, jd_content, user_input, st))
        /\ IF st = "returned" \/ absorbed
           THEN /\ pc' = "loop"
                /\ escaped' = escaped
           ELSE /\ pc' = "idle"
                /\ escaped' = st
  /\ UNCHANGED << messages, uploaded_files, uploader, turns, user_input, resume_content,
                  jd_content, registry, sent, response, adapterVars, jsonVars, routerVars, managerVars, extractVars >>

\* Variant: a loop that ends without a tool call is treated as an error.
LoopFinish_needs_tool(content) ==
  /\ pc = "loop"
  /\ IF invocations = <<>>
     THEN /\ escaped' = "NoToolCalled"
          /\ UNCHANGED << response, messages >>
     ELSE /\ response' = content
          /\ messages' = Append(messages, AssistantMessage(content))
          /\ escaped' = escaped
  /\ pc' = "idle"
  /\ UNCHANGED << uploaded_files, uploader, turns, user_input, resume_content,
                  jd_content, registry, invocations, sent,
                  adapterVars, jsonVars, routerVars, managerVars, extractVars >>

\* router.run returns: response = router_response.content is written and
\* appended as the assistant message.
LoopFinish(content) ==
  /\ pc = "loop"
  /\ response' = content
  /\ messages' = Append(messages, AssistantMessage(content))
  /\ pc' = "idle"
  /\ UNCHANGED << uploaded_files, uploader, turns, user_input, resume_content,
                  jd_content, registry, invocations, sent, escaped,
                  adapterVars, jsonVars, routerVars, managerVars, extractVars >>

\* The decision model's own call fails: router.run raises and nothing in the
\* block catches it.
LoopFail ==
  /\ pc = "loop"
  /\ escaped' = "ModelError"
  /\ pc' = "idle"
  /\ UNCHANGED << messages, uploaded_files, uploader, turns, user_input, resume_content,
                  jd_content, registry, invocations, sent, response,
                  adapterVars, jsonVars, routerVars, managerVars, extractVars >>

\* The model call a dispatch is waiting in does not return.  Neither
\* model.generate_content in the adapter nor router.run is given a timeout, so
\* the script run stays in the call.
ModelCallBlocks ==
  /\ pc \in {"chatbot", "review", "loop"}
  /\ pc' = "blocked"
  /\ UNCHANGED << messages, uploaded_files, uploader, turns, turnVars,
                  adapterVars, jsonVars, routerVars, managerVars, extractVars >>

Next ==
  \/ UploadResume
  \/ UploadJobDescription
  \/ \E u \in UserInputs : Submit(u)
  \/ \E o \in ModelOutcomes : DirectReturn(o)
  \/ \E i \in 1..Len(ToolList), absorbed \in BOOLEAN : LoopToolCall(i, absorbed)
  \/ \E c \in RouterContents : LoopFinish(c)
  \/ LoopFail
  \/ ModelCallBlocks

Spec == Init /\ [][Next]_vars

\* ------------------------------------------- the adapter called on its own
Turns ==
  { Turn(sh, <<"user">>, c) : sh \in {"Message", "dict"}, c \in TurnContents }
    \cup { Turn("dict_nc", <<"user">>, <<>>), Turn("str", <<>>, <<"latest">>) }

RECURSIVE TurnLists(_)
TurnLists(n) ==
  IF n = 0 THEN { <<>> }
  ELSE LET shorter == TurnLists(n - 1)
       IN shorter \cup { Append(l, t) : l \in { x \in shorter : Len(x) = n - 1 }, t \in Turns }

MessagesInputs ==
  { MNone, MObject(<<"<object>">>) }
    \cup { MStr(p) : p \in Prompts }
    \cup { MList(l) : l \in TurnLists(MaxMsgs) }

\* llm._call(prompt)
AdapterCall(prompt, outcome) ==
  /\ a_op' = "_call"
  /\ a_arg' = MStr(prompt)
  /\ a_outcome' = outcome
  /\ sent' = << prompt >>
  /\ a_ret' = [type |-> "str", content |-> llm_call(outcome)]
  /\ UNCHANGED << messages, uploaded_files, uploader, pc, turns, user_input,
                  resume_content, jd_content, registry, invocations, response,
                  escaped, jsonVars, routerVars, managerVars, extractVars >>

\* llm.response(messages)
AdapterResponse(m, outcome) ==
  /\ a_op' = "response"
  /\ a_arg' = m
  /\ a_outcome' = outcome
  /\ sent' = llm_response(m, outcome).sent
  /\ a_ret' = llm_response(m, outcome).ret
  /\ UNCHANGED << messages, uploaded_files, uploader, pc, turns, user_input,
                  resume_content, jd_content, registry, invocations, response,
                  escaped, jsonVars, routerVars, managerVars, extractVars >>

NextAdapter ==
  \/ \E p \in Prompts, o \in ModelOutcomes : AdapterCall(p, o)
  \/ \E m \in MessagesInputs, o \in ModelOutcomes : AdapterResponse(m, o)

SpecAdapter == Init /\ [][NextAdapter]_vars

\* ------------------------------------- the JSON procedures on their own
InitJson ==
  /\ InitApp
  /\ m_budget = DefaultBudget /\ ManagerIdle
  /\ ExtractIdle
  /\ j_text \in RawTexts /\ JsonIdle
  /\ r_agents = <<>> /\ RouterIdle
  /\ r_args = [resume_content |-> None, jd_content |-> None, user_request |-> None]

\* QnAAgent.execute, from the model's raw text on.
QnAExecute ==
  /\ j_op' = "QnAAgent.execute"
  /\ j_ret' = qna_execute(j_text)
  /\ j_steps' = qna_steps(j_text)
  /\ UNCHANGED << j_text, appVars, routerVars, managerVars, extractVars >>

\* ExtractionAgent.safe_extract_json(raw_text)
SafeExtractJson(choice) ==
  /\ j_op' = "safe_extract_json"
  /\ j_ret' = safe_extract_json(j_text, choice)
  /\ j_steps' = safe_extract_steps(j_text)
  /\ UNCHANGED << j_text, appVars, routerVars, managerVars, extractVars >>

\* AIModelManager._parse_json_response(response)
ParseJsonResponse ==
  /\ j_op' = "_parse_json_response"
  /\ j_ret' = parse_json_response(j_text)
  /\ j_steps' = parse_json_response_steps(j_text)
  /\ UNCHANGED << j_text, appVars, routerVars, managerVars, extractVars >>

NextJson ==
  \/ QnAExecute
  \/ \E choice \in RepairChoices : SafeExtractJson(choice)
  \/ ParseJsonResponse

SpecJson == InitJson /\ [][NextJson]_vars

\* ------------------------------------- RouterAgent constructed on its own
InitRouter ==
  /\ InitApp
  /\ m_budget = DefaultBudget /\ ManagerIdle
  /\ ExtractIdle
  /\ j_text = <<>> /\ JsonIdle
  /\ r_agents \in AgentLists(MaxAgents) /\ RouterIdle
  /\ r_args \in [resume_content : { Str(t) : t \in RouterTexts },
                 jd_content : { Str(<< "v1" >>) }, user_request : { Str(<< "v1" >>) }]

\* RouterAgent(agents, resume_content, jd_content, user_request)
RouterInit ==
  /\ r_status = "none"
  /\ r_status' = RouterConstruct(r_agents).status
  /\ r_available' = RouterConstruct(r_agents).available
  /\ r_tools' = RouterConstruct(r_agents).tools
  /\ r_self' = r_args
  /\ UNCHANGED << r_agents, r_args, r_call, appVars, jsonVars, managerVars, extractVars >>

\* Code that holds the router assigns one of its three attributes.
RouterSetAttr(field, v) ==
  /\ r_status = "built"
  /\ r_self' = [r_self EXCEPT ![field] = Str(v)]
  /\ UNCHANGED << r_agents, r_status, r_available, r_tools, r_args, r_call,
                  appVars, jsonVars, managerVars, extractVars >>

\* The decision loop calls tool i of the router.
RouterToolCall(i) ==
  /\ r_status = "built"
  /\ i \in DOMAIN r_tools
  /\ r_call' = RouterToolInvocation(r_tools[i], r_self, r_available)
  /\ UNCHANGED << r_agents, r_status, r_available, r_tools, r_args, r_self,
                  appVars, jsonVars, managerVars, extractVars >>

NextRouter ==
  \/ RouterInit
  \/ \E field \in RouterFields, v \in RouterTexts : RouterSetAttr(field, v)
  \/ \E i \in 1..MaxAgents : RouterToolCall(i)

SpecRouter == InitRouter /\ [][NextRouter]_vars

\* ------------------------------------- AIModelManager on its own
InitManager ==
  /\ InitApp
  /\ j_text = <<>> /\ JsonIdle
  /\ r_agents = <<>> /\ RouterIdle
  /\ r_args = [resume_content |-> None, jd_content |-> None, user_request |-> None]
  /\ m_budget \in ManagerBudgets /\ ManagerIdle
  /\ ExtractIdle

\* Midnight passes between two calls.
ManagerNextDay ==
  /\ m_pc = "idle"
  /\ m_today < MaxDay
  /\ m_today' = m_today + 1
  /\ UNCHANGED << m_pc, m_i, m_prompt, m_budget, m_spending, m_last_reset,
                  m_cache, m_calls, m_result, appVars, jsonVars, routerVars,
                  extractVars >>

\* analyze_cv up to its first model call: the daily reset, the cache, the
\* budget check, and the models skipped for their estimated cost.
AnalyzeCv(prompt) ==
  LET reset == m_today > m_last_reset
      spending == IF reset THEN 0 ELSE m_spending
      cached == { e \in m_cache : e[1] = prompt.text }
      j == NextCallable(1, spending, m_budget, prompt)
  IN /\ m_pc = "idle"
     /\ m_prompt' = prompt
     /\ m_spending' = spending
     /\ m_last_reset' = IF reset THEN m_today ELSE m_last_reset
     /\ m_calls' = <<>>
     /\ IF cached # {}
        THEN /\ m_result' = AnalysisResult(TRUE, (CHOOSE e \in cached : TRUE)[2],
                                           "cache", 0, 0)
             /\ m_pc' = "idle" /\ m_i' = 0
        ELSE IF spending >= m_budget \/ j = 0
        THEN /\ m_result' = FallbackResult
             /\ m_pc' = "idle" /\ m_i' = 0
        ELSE /\ m_result' = NoResult
             /\ m_pc' = "call" /\ m_i' = j
     /\ UNCHANGED << m_budget, m_today, m_cache, appVars, jsonVars, routerVars,
                     extractVars >>

\* The provider call of the loop's current model returns, and analyze_cv
\* runs on to its next provider call or to its return.
ModelReturns(outcome) ==
  LET model == SortedModels[m_i]
      parsed == IF Truthy(outcome.text) THEN parse_json_response(outcome.text.text)
                ELSE PyNone
      actual_cost == outcome.ktokens * model.cost_per_1k_tokens
      j == NextCallable(m_i + 1, m_spending, m_budget, m_prompt)
  IN /\ m_pc = "call"
     /\ m_calls' = Append(m_calls, [model |-> model.name, priority |-> model.priority,
                                    response |-> outcome.text, parsed |-> parsed])
     /\ IF Truthy(outcome.text) /\ PyTruthy(parsed)
        THEN /\ m_spending' = m_spending + actual_cost
             /\ m_cache' = { e \in m_cache : e[1] # m_prompt.text }
                             \cup { << m_prompt.text, parsed >> }
             /\ m_result' = AnalysisResult(TRUE, parsed, model.name, outcome.ktokens,
                                           actual_cost)
             /\ m_pc' = "idle" /\ m_i' = 0
        ELSE IF j = 0
        THEN /\ m_result' = FallbackResult
             /\ m_pc' = "idle" /\ m_i' = 0
             /\ UNCHANGED << m_spending, m_cache >>
        ELSE /\ m_i' = j
             /\ UNCHANGED << m_pc, m_result, m_spending, m_cache >>
     /\ UNCHANGED << m_prompt, m_budget, m_today, m_last_reset, appVars, jsonVars,
                     routerVars, extractVars >>

NextManager ==
  \/ ManagerNextDay
  \/ \E prompt \in ManagerPrompts : AnalyzeCv(prompt)
  \/ \E outcome \in ManagerOutcomes : ModelReturns(outcome)

SpecManager == InitManager /\ [][NextManager]_vars

\* ------------------------------------- ExtractionAgent.execute on its own
InitExtract ==
  /\ InitApp
  /\ j_text = <<>> /\ JsonIdle
  /\ r_agents = <<>> /\ RouterIdle
  /\ r_args = [resume_content |-> None, jd_content |-> None, user_request |-> None]
  /\ m_budget = DefaultBudget /\ ManagerIdle
  /\ ExtractIdle

\* The rows a statement of this connection sees.
VisibleRows == e_jobs \cup e_candidates \cup e_pending

\* except Exception: self.conn.rollback(); raise e.  The rollback drops
\* the rows of the open transaction and leaves the persisted ones.
ExecuteRaises ==
  /\ e_pending' = {}
  /\ e_status' = "raised"
  /\ e_pc' = "idle"
  /\ UNCHANGED << e_call, e_jd_content, e_resume_data, e_jd_data, e_job_id,
                  e_jobs, e_candidates >>

\* execute(resume_content, jd_content) is called.
ExecuteStart(jd) ==
  /\ e_pc = "idle"
  /\ e_call < MaxExecutes
  /\ e_call' = e_call + 1
  /\ e_jd_content' = jd
  /\ e_resume_data' = PyNone
  /\ e_jd_data' = PyNone
  /\ e_job_id' = 0
  /\ e_status' = "running"
  /\ e_pc' = "extract_resume"
  /\ UNCHANGED << e_jobs, e_candidates, e_pending, appVars, jsonVars, routerVars,
                  managerVars >>

\* resume_data = self.extract_resume_fields(resume_content): the model call
\* raises, or answers with a text.
ExtractResumeFields(ok, raw, choice) ==
  /\ e_pc = "extract_resume"
  /\ IF ok
     THEN /\ e_resume_data' = extract_fields(raw, choice)
          /\ e_pc' = "extract_jd"
          /\ UNCHANGED << e_call, e_jd_content, e_jd_data, e_job_id, e_jobs,
                          e_candidates, e_pending, e_status >>
     ELSE ExecuteRaises
  /\ UNCHANGED << appVars, jsonVars, routerVars, managerVars >>

\* jd_data = self.extract_jd_fields(jd_content)
ExtractJdFields(ok, raw, choice) ==
  /\ e_pc = "extract_jd"
  /\ IF ok
     THEN /\ e_jd_data' = extract_fields(raw, choice)
          /\ e_pc' = "insert_jd"
          /\ UNCHANGED << e_call, e_jd_content, e_resume_data, e_job_id, e_jobs,
                          e_candidates, e_pending, e_status >>
     ELSE ExecuteRaises
  /\ UNCHANGED << appVars, jsonVars, routerVars, managerVars >>

\* job_id = insert_job_description(self.cursor, jd_content, jd_data):
\* jd_data.get raises on a value that is no dict; the statement fails or
\* succeeds; a row with the same jd_hash is kept and its id returned.
InsertJobDescription(ok) ==
  LET jd_hash == compute_hash(e_jd_content)
      same == { r \in VisibleRows : r.table = "job_descriptions" /\ r.key = jd_hash }
      jobs == { r \in VisibleRows : r.table = "job_descriptions" }
      row == JobRow(Cardinality(jobs) + 1, jd_hash, e_call)
      db == DbInsert(e_jobs, e_pending, row)
  IN /\ e_pc = "insert_jd"
     /\ IF ok /\ e_jd_data.t = "dict"
        THEN /\ IF same # {}
                THEN /\ e_job_id' = (CHOOSE r \in same : TRUE).id
                     /\ UNCHANGED << e_jobs, e_pending >>
                ELSE /\ e_job_id' = row.id
                     /\ e_jobs' = db.persisted
                     /\ e_pending' = db.pending
             /\ e_pc' = "insert_candidate"
             /\ UNCHANGED << e_call, e_jd_content, e_resume_data, e_jd_data,
                             e_candidates, e_status >>
        ELSE ExecuteRaises
     /\ UNCHANGED << appVars, jsonVars, routerVars, managerVars >>

\* insert_candidate(self.cursor, job_id, resume_data)
InsertCandidate(ok) ==
  LET cands == { r \in VisibleRows : r.table = "candidates" }
      row == CandidateRow(Cardinality(cands) + 1, e_job_id, e_call)
      db == DbInsert(e_candidates, e_pending, row)
  IN /\ e_pc = "insert_candidate"
     /\ IF ok /\ e_resume_data.t = "dict"
        THEN /\ e_candidates' = db.persisted
             /\ e_pending' = db.pending
             /\ e_pc' = "commit"
             /\ UNCHANGED << e_call, e_jd_content, e_resume_data, e_jd_data,
                             e_job_id, e_jobs, e_status >>
        ELSE ExecuteRaises
     /\ UNCHANGED << appVars, jsonVars, routerVars, managerVars >>

\* self.conn.commit(), the prints and the return.
ExecuteCommit(ok) ==
  /\ e_pc = "commit"
  /\ IF ok
     THEN /\ e_jobs' = DbCommit(e_jobs, e_pending, "job_descriptions")
          /\ e_candidates' = DbCommit(e_candidates, e_pending, "candidates")
          /\ e_pending' = {}
          /\ e_status' = "returned"
          /\ e_pc' = "idle"
          /\ UNCHANGED << e_call, e_jd_content, e_resume_data, e_jd_data, e_job_id >>
     ELSE ExecuteRaises
  /\ UNCHANGED << appVars, jsonVars, routerVars, managerVars >>

NextExtract ==
  \/ \E jd \in ExtractJds : ExecuteStart(jd)
  \/ \E ok \in BOOLEAN, raw \in ExtractTexts, choice \in RepairChoices :
       ExtractResumeFields(ok, raw, choice)
  \/ \E ok \in BOOLEAN, raw \in ExtractTexts, choice \in RepairChoices :
       ExtractJdFields(ok, raw, choice)
  \/ \E ok \in BOOLEAN : InsertJobDescription(ok)
  \/ \E ok \in BOOLEAN : InsertCandidate(ok)
  \/ \E ok \in BOOLEAN : ExecuteCommit(ok)

SpecExtract == InitExtract /\ [][NextExtract]_vars

\* ------------------------------------------------------------------ claims
\* A document is present in a dispatch when the content read from its slot is
\* truthy, which is what the branch conditions test.
ResumePresent == Truthy(resume_content)
JdPresent == Truthy(jd_content)
Dispatched == turns > 0
Completed == turns > 0 /\ pc = "idle"
EligibleAgents == {"RecruiterAgent", "KnowledgeAgent", "QnAAgent"}
LastMessage == messages[Len(messages)]

\* What each path leaves behind when it is entered.
RanTools == registry # <<>>
RanReview == \E i \in DOMAIN invocations : invocations[i].agent = "ResumeReviewerAgent"
RanChatbot == sent # <<>>
PathsRun ==
  (IF RanTools THEN {"tools"} ELSE {}) \cup
  (IF RanReview THEN {"review"} ELSE {}) \cup
  (IF RanChatbot THEN {"chatbot"} ELSE {})

\* C1: a dispatch executes exactly one of the three paths (decision loop,
\* direct resume review, chatbot), and with both documents present that path
\* is the decision loop, never the resume-only path.
C1_ExactlyOnePath ==
  Dispatched =>
    /\ Cardinality(PathsRun) = 1
    /\ (ResumePresent /\ JdPresent => PathsRun = {"tools"})
C1_Witness ==
  Completed /\ ResumePresent /\ JdPresent /\ RanTools /\ escaped = "none"

\* C2: with neither document present the response comes from the chatbot
\* path only: the chatbot template followed by the user's message is the one
\* prompt sent through the adapter's completion call, no tool registry is
\* built and no specialized agent is invoked.
C2_ChatbotOnly ==
  Dispatched /\ ~ResumePresent /\ ~JdPresent =>
    /\ registry = <<>>
    /\ invocations = <<>>
    /\ sent = << <<"CHATBOT_PROMPT", "\n\nUser's request: ">> \o user_input >>
    /\ (pc = "idle" =>
          /\ escaped = "none"
          /\ \/ response.text \in ModelTexts
             \/ \E e \in ModelErrors : response.text = <<"An error occurred: ">> \o e
          /\ LastMessage = [role |-> "assistant", content |-> response])
C2_Witness ==
  /\ Completed /\ ~ResumePresent /\ ~JdPresent
  /\ response = Str(<<"generated text">>)

\* C3: with the resume present and the job description absent the
\* resume-review agent is invoked directly, exactly once, with the resume text
\* and the user's message, its output becomes the response, and no other
\* agent is invoked.
C3_ReviewDirect ==
  Completed /\ ResumePresent /\ ~JdPresent =>
    /\ Len(invocations) = 1
    /\ invocations[1].agent = "ResumeReviewerAgent"
    /\ invocations[1].resume = resume_content
    /\ invocations[1].request = Str(user_input)
    /\ invocations[1].status = "returned"
    /\ escaped = "none"
    /\ LastMessage = [role |-> "assistant", content |-> response]

\* C4: with both documents present the registry handed to the decision loop
\* holds exactly one tool for each of the recruiter, skill-gap and
\* interview-question agents, and the tool identifiers are pairwise distinct.
C4_RegistryOnePerAgent ==
  Dispatched /\ ResumePresent /\ JdPresent =>
    /\ \A a \in EligibleAgents :
         Cardinality({ i \in DOMAIN registry : registry[i].agent = a }) = 1
    /\ \A i \in DOMAIN registry : registry[i].agent \in EligibleAgents
    /\ \A i, j \in DOMAIN registry : i # j => registry[i].name # registry[j].name
C4_Witness ==
  pc = "loop" /\ ResumePresent /\ JdPresent /\ Len(registry) = 3

\* C5: in a dispatch with both documents present at most one tool of the
\* registry is invoked before the response is returned.
C5_AtMostOneTool ==
  Cardinality({ i \in DOMAIN invocations : invocations[i].agent \in EligibleAgents }) <= 1

\* C6: no exception escapes a dispatch: every dispatch that ends has produced
\* a response that is appended to the conversation as the assistant message.
C6_NoExceptionEscapes ==
  Completed =>
    /\ escaped = "none"
    /\ LastMessage.role = "assistant"
    /\ LastMessage.content = response

\* C7: every specialized agent provides the execute operation with which a
\* dispatch path or a tool calls it, so no call fails for a missing operation.
C7_ExecuteProvided ==
  \A i \in DOMAIN invocations :
    /\ invocations[i].method \in AgentMethods[invocations[i].agent]
    /\ invocations[i].status # "AttributeError"

\* C8: every dispatch that completes yields a non-empty response string,
\* generated text or an explicit error message, never an empty reply.
C8_NonEmptyResponse ==
  Completed /\ escaped = "none" =>
    response.kind = "str" /\ response.text # <<>>

\* C9: the adapter's completion call never raises: when the underlying model
\* call fails it returns a string that begins with the error marker, and when
\* it succeeds it returns the model's text.
C9_CallNeverRaises ==
  a_op = "_call" =>
    /\ a_ret.type = "str"
    /\ a_ret.content.kind = "str"
    /\ sent = << a_arg.text >>
    /\ (a_outcome.ok => a_ret.content.text = a_outcome.text)
    /\ (~a_outcome.ok =>
          /\ Len(a_ret.content.text) >= 1
          /\ Head(a_ret.content.text) = "An error occurred: ")
C9_Witness ==
  a_op = "_call" /\ ~a_outcome.ok /\ a_ret.content.text # <<>>

\* The last turn of a list carries content: an object with a content
\* attribute, a dict with a 'content' key, or a plain string.
LastTurn == a_arg.items[Len(a_arg.items)]
LastTurnHasContent ==
  a_arg.kind = "list" /\ a_arg.items # <<>> /\ LastTurn.shape # "dict_nc"
ReturnsContentString ==
  a_ret.type = "ModelResponse" /\ a_ret.content.kind = "str"

\* C10 (as stated): respond, given a single string, sends that string to the
\* model, and given a non-empty list of turns sends only the content of the
\* last turn; in both cases it returns an object whose content is a string.
C10_RespondSendsInput ==
  a_op = "response" =>
    /\ (a_arg.kind = "str" => sent = << a_arg.text >> /\ ReturnsContentString)
    /\ (LastTurnHasContent => sent = << LastTurn.content >> /\ ReturnsContentString)

\* C10 (amended): respond, given a single non-empty string, sends that string
\* to the model (given the empty string it sends nothing and returns empty
\* content), and given a non-empty list of turns sends only the content of the
\* last turn; in all these cases it returns an object whose content is a
\* string.
C10_RespondSendsNonEmptyInput ==
  a_op = "response" =>
    /\ (a_arg.kind = "str" /\ a_arg.text # <<>> =>
          sent = << a_arg.text >> /\ ReturnsContentString)
    /\ (a_arg.kind = "str" /\ a_arg.text = <<>> =>
          sent = <<>> /\ a_ret.content = Str(<<>>) /\ ReturnsContentString)
    /\ (LastTurnHasContent => sent = << LastTurn.content >> /\ ReturnsContentString)
C10_Witness ==
  /\ a_op = "response"
  /\ a_arg.kind = "list" /\ Len(a_arg.items) = 2
  /\ a_arg.items[1].content = <<"earlier">>
  /\ a_arg.items[2].content = <<"latest">>
  /\ sent = << <<"latest">> >>

\* The structured-output shape: a dict from skill to a dict whose keys are
\* among the three level labels and whose values are lists of strings.
LevelLabels == { << "Level 1" >>, << "Level 2" >>, << "Level 3" >> }
HasQuestionShape(v) ==
  /\ v.t = "dict"
  /\ \A i \in DOMAIN v.items :
       /\ v.items[i].t = "dict"
       /\ \A k \in DOMAIN v.items[i].keys : v.items[i].keys[k] \in LevelLabels
       /\ \A k \in DOMAIN v.items[i].items :
            /\ v.items[i].items[k].t = "list"
            /\ \A q \in DOMAIN v.items[i].items[k].items :
                 v.items[i].items[k].items[q].t = "str"

\* C11: JSON repair is total: whatever the input text, each of the repair
\* procedures returns a mapping, never a list, a string, a number or null.
C11_RepairReturnsMapping ==
  j_op # "none" => j_ret.t = "dict"

\* C12: when the cleaned text does not parse to a JSON object, the
\* interview-question agent returns the sentinel whose Level 3 list holds the
\* raw model text unchanged.
C12_FallbackHoldsRawText ==
    ( /\ j_op = "QnAAgent.execute"
       /\ ~( json_loads(Strip(StripFences(j_text))).ok
             /\ json_loads(Strip(StripFences(j_text))).val.t = "dict" ) )
       => j_ret =
            [ t |-> "dict", s |-> <<>>, keys |-> << <<"General">> >>,
              items |-> << [ t |-> "dict", s |-> <<>>,
                             keys |-> << <<"Level 1">>, <<"Level 2">>, <<"Level 3">> >>,
                             items |-> << PyList(<<>>), PyList(<<>>),
                                          PyList(<< PyStr(j_text) >>) >> ] >> ]

\* C13: every value the interview-question agent's execute returns, parsed
\* or fallback, has the structured-output shape.
C13_ExecuteReturnsQuestionShape ==
  j_op = "QnAAgent.execute" => HasQuestionShape(j_ret)

\* C14: for a text that is a valid JSON object already, each repair
\* procedure returns exactly what a direct parse of the text returns.
C14_ValidObjectUnchanged ==
  ( /\ j_op # "none"
    /\ json_loads(j_text).ok
    /\ json_loads(j_text).val.t = "dict" )
    => j_ret = json_loads(j_text).val

\* C15: constructing the router from a list in which two agents have the
\* same normalized name fails with a duplicate-tool-name error.
C15_DuplicateNamesFail ==
  ( /\ r_status # "none"
    /\ \E i, j \in DOMAIN r_agents :
         i < j /\ NormalizeName(r_agents[i]) = NormalizeName(r_agents[j]) )
    => r_status = "DuplicateToolName"

\* C21: a parse of the fence interior comes before every other parse, and
\* structural repair is applied only after a parse has been tried and failed.
C21_StrategyOrder ==
  j_op # "none" =>
    /\ \A i \in DOMAIN j_steps :
         j_steps[i] = "structural_repair" =>
           \E k \in 1..(i - 1) :
             j_steps[k] \in {"parse", "parse_full_text", "parse_fence_interior"}
    /\ \A i \in DOMAIN j_steps :
         j_steps[i] = "parse_fence_interior" =>
           \A k \in 1..(i - 1) :
             j_steps[k] \notin {"parse", "parse_full_text", "parse_brace_slice"}

\* C22: for a model text that is one fenced block around a JSON object with
\* a comma before its closing brace, the interview-question agent returns
\* that object (the parse of the interior without the comma).
C22_FencedTrailingCommaRepaired ==
  \A doc \in JsonDocs(MaxDepth) :
    ( /\ j_op = "QnAAgent.execute"
      /\ Len(doc) >= 3 /\ doc[1] = "{"
      /\ j_text = << "<fence>", "json", " " >>
                    \o SubSeq(doc, 1, Len(doc) - 1) \o << ",", "}" >>
                    \o << " ", "<fence>" >> )
      => j_ret = json_loads(doc).val

\* C23: every call of a router tool passes the resume text, job-description
\* text and user request the router was constructed with.
C23_ToolArgumentsFixed ==
  r_call # NoCall =>
    r_call.args = << r_args.resume_content, r_args.jd_content, r_args.user_request >>

\* C16: in every dispatch, an agent that needs the job description
\* (recruiter evaluation, skill gap, interview questions) is invoked only with
\* both documents present and the resume reviewer only with the resume
\* present; the documents handed over are the ones read from the slots.
C16_InvokedWithRequiredDocuments ==
  \A i \in DOMAIN invocations :
    LET inv == invocations[i]
    IN /\ inv.agent \in EligibleAgents =>
            /\ inv.resume = resume_content /\ inv.resume \notin {None, Str(<<>>)}
            /\ inv.jd = jd_content /\ inv.jd \notin {None, Str(<<>>)}
       /\ inv.agent = "ResumeReviewerAgent" =>
            /\ inv.resume = resume_content /\ inv.resume \notin {None, Str(<<>>)}
       /\ inv.agent \in EligibleAgents \cup {"ResumeReviewerAgent"}

C16_Witness ==
  /\ \E i \in DOMAIN invocations :
        invocations[i].agent = "KnowledgeAgent" /\ invocations[i].status = "returned"
  /\ \E i \in DOMAIN invocations : invocations[i].agent = "QnAAgent"

\* C17: each slot holds the parsed text of the file most recently uploaded to
\* it: every re-upload replaces the slot's prior name and content.
C17_SlotHoldsLatestUpload ==
  \A slot \in {"resume", "job_description"} :
    uploader[slot] # <<>> =>
      /\ uploaded_files[slot].name = Str(uploader[slot][1].name)
      /\ uploaded_files[slot].content = extract_text_from_pdf(uploader[slot][1])

\* C18: on every dispatch path that was entered, the run ends with a response
\* taken from the path's result: the content field of the run response on the
\* tools and review paths, the string itself on the chatbot path.
C18_ResponseByExtractionRule ==
  Completed =>
    /\ RanChatbot => escaped = "none" /\ response.kind = "str"
    /\ RanTools /\ escaped = "none" => response \in RouterContents
    /\ RanReview /\ ~RanTools =>
         /\ escaped \in {"none", "ModelError"}
         /\ escaped = "none" => response.kind = "str"

\* C19: a dispatch cannot hang: whenever a script run is inside a dispatch,
\* a step that ends the dispatch (a return or a raised error) is possible.
C19_DispatchCannotHang ==
  pc # "idle" =>
    ENABLED ( \/ \E o \in ModelOutcomes : DirectReturn(o)
              \/ \E c \in RouterContents : LoopFinish(c)
              \/ LoopFail )

\* C20: the history is only appended to, one entry per step at most; a chat
\* input appends the user's message, a turn that completes with a response
\* appends that response as the assistant's message directly after the user's
\* message of the same turn, and nothing else touches the history.
C20_AppendOnlyTwoPerTurn ==
  [][ LET submitted == turns' = turns + 1
          completed == pc # "idle" /\ pc' = "idle" /\ escaped' = "none"
      IN /\ Len(messages') >= Len(messages)
         /\ SubSeq(messages', 1, Len(messages)) = messages
         /\ submitted =>
              messages' = Append(messages, [role |-> "user",
                                            content |-> [kind |-> "str", text |-> user_input']])
         /\ completed =>
              /\ messages' = Append(messages, [role |-> "assistant",
                                               content |-> response'])
              /\ messages[Len(messages)] =
                   [role |-> "user", content |-> [kind |-> "str", text |-> user_input]]
         /\ ~submitted /\ ~completed => messages' = messages
    ]_vars

C20_Witness ==
  /\ turns = 2 /\ pc = "idle" /\ escaped = "none"
  /\ Len(messages) = 4
  /\ messages[3].role = "user" /\ messages[4].role = "assistant"
  /\ messages[4].content = response

\* C24: in the both-documents path a failure of the model call inside the
\* decision loop does not end the run with an exception.
C24_LoopModelFailureShown ==
  RanTools /\ pc = "idle" => escaped # "ModelError"

\* C25: when the decision loop ends without any tool having been invoked
\* and without a failure of the model call, the run completes normally: no
\* exception, no agent invoked, and the response written and appended as the
\* assistant message is the content the loop returned.
C25_NoToolMeansOwnText ==
  [][ ( /\ pc = "loop" /\ pc' = "idle"
        /\ invocations' = <<>>
        /\ escaped' # "ModelError" )
      => /\ escaped' = "none"
         /\ response' \in { [kind |-> "None", text |-> <<>>],
                            [kind |-> "str", text |-> <<>>],
                            [kind |-> "str", text |-> <<"generated text">>] }
         /\ messages' = Append(messages, [role |-> "assistant", content |-> response'])
    ]_vars

C25_Witness ==
  /\ registry # <<>> /\ pc = "idle" /\ escaped = "none"
  /\ invocations = <<>>
  /\ response = [kind |-> "str", text |-> <<"generated text">>]
  /\ messages[Len(messages)] = [role |-> "assistant", content |-> response]

\* C26: in a dispatch with the job description present and the resume
\* absent, no tool registry is built, no agent is invoked, and the only model
\* request is the chatbot prompt with the user's request, which holds nothing
\* of the job-description text.
C26_JdOnlyIsChatbot ==
  ( /\ turns > 0
    /\ jd_content \notin {None, Str(<<>>)}
    /\ resume_content \in {None, Str(<<>>)} )
    => /\ registry = <<>>
       /\ invocations = <<>>
       /\ sent = << << "CHATBOT_PROMPT", "\n\nUser's request: " >> \o user_input >>
       /\ \A i \in DOMAIN sent : \A k \in DOMAIN sent[i] :
            \A j \in DOMAIN jd_content.text : sent[i][k] # jd_content.text[j]

C26_Witness ==
  /\ turns > 0 /\ pc = "idle" /\ escaped = "none"
  /\ jd_content = Str(<< "jd-", "text" >>)
  /\ resume_content = Str(<<>>)
  /\ sent # <<>>
  /\ response = Str(<< "generated text" >>)

\* C27: no agent is invoked with a parser error message as its resume or
\* job-description text.
C27_ParseErrorNotADocument ==
  \A i \in DOMAIN invocations :
    invocations[i].status = "returned" =>
      /\ ~( invocations[i].resume.text # <<>>
            /\ Head(invocations[i].resume.text) = "Error reading PDF file: " )
      /\ ~( invocations[i].jd.text # <<>>
            /\ Head(invocations[i].jd.text) = "Error reading PDF file: " )

\* C28: daily_spending never exceeds daily_budget; a model call whose cost
\* would take the spending above the budget is never charged.
C28_SpendingWithinBudget == m_spending <= m_budget

\* The calls of the last analyze_cv whose response parsed to JSON, and
\* those whose parsed value Python takes for true.
ParsedCalls == { k \in DOMAIN m_calls : m_calls[k].parsed # PyNone }
UsableCalls == { k \in DOMAIN m_calls : PyTruthy(m_calls[k].parsed) }
Returned == m_pc = "idle" /\ m_result.model_used # "none"
AscendingPriority ==
  \A k \in DOMAIN m_calls : k > 1 => m_calls[k - 1].priority < m_calls[k].priority

\* C29 as stated: the models are called in strictly ascending priority
\* number; the first call whose response parses to JSON ends the loop and its
\* data is returned; with no parseable response the rule-based fallback is
\* returned; every result has success = True and data that is not None.
C29_FirstParseableModelWins ==
  /\ AscendingPriority
  /\ \A k \in ParsedCalls :
       /\ k = Len(m_calls)
       /\ Returned
       /\ m_result.data = m_calls[k].parsed
  /\ Returned /\ m_result.model_used # "cache" /\ ParsedCalls = {}
       => m_result.model_used = "fallback_rule_based"
  /\ Returned => m_result.success /\ m_result.data # PyNone

\* C29, amended: the models are gone through in strictly ascending priority
\* number and every model whose estimated cost fits the budget is called
\* until one answers; the first call whose response parses to a JSON value
\* that Python takes for true (a non-empty object) ends the loop and its data
\* is returned; with no such response the rule-based fallback is returned;
\* every result has success = True and data that is not None.
C29_FirstUsableModelWins ==
  /\ AscendingPriority
  /\ \A k \in UsableCalls :
       /\ k = Len(m_calls)
       /\ Returned
       /\ m_result.data = m_calls[k].parsed
       /\ m_result.model_used = m_calls[k].model
  /\ Returned /\ m_result.model_used # "cache" /\ UsableCalls = {}
       => /\ m_result.model_used = "fallback_rule_based"
          /\ m_result.data.t = "dict" /\ m_result.data.keys # <<>>
          /\ \A i \in DOMAIN ManagerModels :
               m_spending + m_prompt.ktokens * ManagerModels[i].cost_per_1k_tokens
                   <= m_budget /\ m_spending < m_budget
                 => \E k \in DOMAIN m_calls : m_calls[k].model = ManagerModels[i].name
  /\ m_pc = "call" =>
       \A i \in DOMAIN ManagerModels :
         /\ ManagerModels[i].priority < SortedModels[m_i].priority
         /\ m_spending + m_prompt.ktokens * ManagerModels[i].cost_per_1k_tokens <= m_budget
         => \E k \in DOMAIN m_calls : m_calls[k].model = ManagerModels[i].name
  /\ Returned => m_result.success /\ m_result.data # PyNone

\* The first model answered with an empty object, the second model was
\* called and its data returned.
C29_Witness ==
  /\ Returned
  /\ Len(m_calls) = 2
  /\ m_calls[1].model = "Claude Sonnet 4"
  /\ m_calls[1].parsed = PyDict(<<>>, <<>>)
  /\ m_result.model_used = "Claude Haiku"
  /\ m_result.data = PyDict(<< << "a" >> >>, << PyInt(<< "1" >>) >>)

\* The persisted rows the current call of execute wrote.
RowsOfCall == { r \in e_jobs \cup e_candidates : r.by = e_call }

\* C30: when execute raises, neither the job-description row nor the
\* candidate row it wrote is persisted; its rows are persisted only when it
\* returns.
C30_AtomicPersistence ==
  /\ e_pc = "idle" /\ e_status = "raised" => RowsOfCall = {}
  /\ e_pc = "idle" /\ RowsOfCall # {} => e_status = "returned"

====
